---------------------------- MODULE Spec2Model ----------------------------
(***************************************************************************)
(* Model of libfacerec's Linear Discriminant Analysis (subspace::LDA),     *)
(* the generic subspace::project / subspace::reconstruct transforms and    *)
(* the matrix helpers of helper.hpp they are built on.                     *)
(*                                                                         *)
(* A cv::Mat is a sequence of rows, each row a sequence of numbers; the    *)
(* empty Mat() is <<>>.  Matrix entries are small integers, on which the   *)
(* conversion to CV_64FC1 and the double arithmetic of add / subtract /    *)
(* gemm are exact.  Indices returned by argsort are zero-based as in the   *)
(* C++ code; sequences of the model are one-based.  The means and scatter  *)
(* matrices inside compute are fractions <<numerator, denominator>> in     *)
(* lowest terms: the value a double approximates, without its rounding.    *)
(***************************************************************************)
EXTENDS Integers, Sequences, FiniteSets, TLC

VARIABLES dataAsRow,       \* LDA::_dataAsRow
          num_components,  \* LDA::_num_components
          eigenvectors,    \* LDA::_eigenvectors
          eigenvalues,     \* LDA::_eigenvalues
          requested,       \* the num_components argument the constructor got
          computed,        \* TRUE once a compute call has returned normally
          last             \* the most recent call: arguments, locals, outcome

vars == <<dataAsRow, num_components, eigenvectors, eigenvalues,
          requested, computed, last>>

lda == <<dataAsRow, num_components, eigenvectors, eigenvalues,
         requested, computed>>

---------------------------------------------------------------------------
(* Bounds of the model *)

MaxN == 3
MaxD == 2
MaxReq == 2
MaxEig == 1
MaxT == 2
MaxSortLen == 4
MaxLabels == 5

---------------------------------------------------------------------------
(* cv::Mat basics *)

EmptyMat == <<>>

Rows(M) == Len(M)

Cols(M) == IF Len(M) = 0 THEN 0 ELSE Len(M[1])

\* Mat::total()
Total(M) == Rows(M) * Cols(M)

RECURSIVE SumTo(_, _)
SumTo(f, n) == IF n = 0 THEN 0 ELSE f[n] + SumTo(f, n - 1)

RECURSIVE Flatten(_)
Flatten(M) == IF M = <<>> THEN <<>> ELSE Head(M) \o Flatten(Tail(M))

\* Mat::reshape(1, 1): all elements as one row
Reshape11(M) == IF Total(M) = 0 THEN EmptyMat ELSE <<Flatten(M)>>

\* cv::repeat(row, n, 1): the one-row matrix stacked n times
Repeat(R, n) == [i \in 1..n |-> R[1]]

\* cv::subtract(A, B, dst) on matrices of equal size
Subtract(A, B) == [i \in 1..Rows(A) |-> [j \in 1..Cols(A) |-> A[i][j] - B[i][j]]]

\* cv::transpose(src)
transpose(src) == [j \in 1..Cols(src) |-> [i \in 1..Rows(src) |-> src[i][j]]]

\* Mat(m, Range::all(), Range(0, n)): the first n columns
ColRange(M, n) == [i \in 1..Rows(M) |-> SubSeq(M[i], 1, n)]

\* the outcome of a call that may end in a cv::Exception
Ok(M) == [ok |-> TRUE, mat |-> M]
Failed == [ok |-> FALSE, mat |-> EmptyMat]

\* cv::gemm(A, B, 1.0, C, beta, dst, flags): dst = A * op(B) + beta * C,
\* op(B) = B^T under GEMM_2_T.  The sizes must agree: the inner dimensions,
\* and the size of a non-empty C with the size of the product.
gemm(A, B, C, beta, transB) ==
    LET inner == IF transB THEN Cols(B) ELSE Rows(B)
        outc  == IF transB THEN Rows(B) ELSE Cols(B)
        b(l, j) == IF transB THEN B[j][l] ELSE B[l][j]
        prod  == [i \in 1..Rows(A) |-> [j \in 1..outc |->
                    SumTo([l \in 1..inner |-> A[i][l] * b(l, j)], inner)]]
    IN  IF Cols(A) # inner
        THEN Failed
        ELSE IF C = EmptyMat
        THEN Ok(prod)
        ELSE IF Rows(C) # Rows(A) \/ Cols(C) # outc
        THEN Failed
        ELSE Ok([i \in 1..Rows(A) |-> [j \in 1..outc |->
                    prod[i][j] + beta * C[i][j]]])

---------------------------------------------------------------------------
(* helper.hpp *)

\* an insert that keeps the order of arrival (a vector with a membership
\* test instead of a std::set)
RECURSIVE SetInsertUnordered(_, _)
SetInsertUnordered(elems, x) ==
    IF elems = <<>> THEN <<x>>
    ELSE IF Head(elems) = x THEN elems
    ELSE <<Head(elems)>> \o SetInsertUnordered(Tail(elems), x)

\* std::set<_Tp>::insert on the ascending sequence of the set's elements
RECURSIVE SetInsert(_, _)
SetInsert(elems, x) ==
    IF elems = <<>> THEN <<x>>
    ELSE IF Head(elems) = x THEN elems
    ELSE IF Head(elems) < x THEN <<Head(elems)>> \o SetInsert(Tail(elems), x)
    ELSE <<x>> \o elems

\* remove_dups: insert every element into a std::set, then copy the set out
\* in iteration (ascending) order
RECURSIVE remove_dups(_)
remove_dups(src) ==
    IF src = <<>> THEN <<>>
    ELSE SetInsert(remove_dups(SubSeq(src, 1, Len(src) - 1)), src[Len(src)])

\* cv::sortIdx places index i among the indices already ordered: after every
\* index whose value compares less; the order of equal values is not fixed
\* by the library, tie says which of two equal values goes first
RECURSIVE InsertIdx(_, _, _, _)
InsertIdx(idx, i, v, tie) ==
    IF idx = <<>> THEN <<i>>
    ELSE IF v[Head(idx) + 1] < v[i + 1] \/ (v[Head(idx) + 1] = v[i + 1] /\ tie)
    THEN <<Head(idx)>> \o InsertIdx(Tail(idx), i, v, tie)
    ELSE <<i>> \o idx

RECURSIVE SortIdxAscending(_, _, _)
SortIdxAscending(v, n, tie) ==
    IF n = 0 THEN <<>>
    ELSE InsertIdx(SortIdxAscending(v, n - 1, tie), n - 1, v, tie)

Reverse(s) == [i \in 1..Len(s) |-> s[Len(s) + 1 - i]]

\* sortIdx that drops the direction flag
sortIdxAlwaysAscending(v, ascending, tie) == SortIdxAscending(v, Len(v), tie)

\* cv::sortIdx(row, dst, CV_SORT_EVERY_ROW + direction): the ascending order,
\* reversed for CV_SORT_DESCENDING
sortIdx(v, ascending, tie) ==
    IF ascending THEN SortIdxAscending(v, Len(v), tie)
    ELSE Reverse(SortIdxAscending(v, Len(v), tie))

\* cv::argsort(src, ascending): the zero-based indices that sort the 1D
\* matrix src, as a one-row matrix
argsort(src, ascending, tie) ==
    IF Rows(src) # 1 /\ Cols(src) # 1
    THEN Failed
    ELSE Ok(<<sortIdx(Flatten(src), ascending, tie)>>)

\* cv::sortMatrixByColumn(src, indices): dst is created with the size of src
\* and its column idx is written for idx < indices.size() only; junk is the
\* content of the columns that are never written
sortMatrixByColumn(src, indices, junk) ==
    [i \in 1..Rows(src) |-> [j \in 1..Cols(src) |->
        IF j <= Len(indices) THEN src[i][indices[j] + 1] ELSE junk]]

\* Mat sortMatrixByRow(const Mat& src, vector<int> indices): dst is created
\* with the size of src, and the rows past indices.size() are never written
sortMatrixByRow(src, indices, junk) ==
    [i \in 1..Rows(src) |->
        IF i <= Len(indices) THEN src[indices[i] + 1]
        ELSE [j \in 1..Cols(src) |-> junk]]

---------------------------------------------------------------------------
(* subspace::project and subspace::reconstruct *)

\* project that compares the mean's size with the number of basis columns
projectMeanOfBasisCols(W, mean, src) ==
    LET X == src
        n == Rows(X)
        d == Cols(X)
    IN  IF Total(mean) = Cols(W)
        THEN IF Total(mean) = d
             THEN gemm(Subtract(X, Repeat(Reshape11(mean), n)), W,
                       EmptyMat, 0, FALSE)
             ELSE Failed
        ELSE gemm(X, W, EmptyMat, 0, FALSE)

project(W, mean, src) ==
    LET X == src
        n == Rows(X)
        d == Cols(X)
        Xc == IF Total(mean) = d
              THEN Subtract(X, Repeat(Reshape11(mean), n))
              ELSE X
    IN  gemm(Xc, W, EmptyMat, 0, FALSE)

reconstruct(W, mean, src) ==
    LET n == Rows(src)
        d == Cols(src)
        Y == src
    IN  gemm(Y, W,
             IF d = Total(mean) THEN Repeat(Reshape11(mean), n) ELSE EmptyMat,
             IF d = Total(mean) THEN 1 ELSE 0,
             TRUE)

---------------------------------------------------------------------------
(* The arithmetic of compute's statistics *)

Abs(x) == IF x < 0 THEN 0 - x ELSE x

RECURSIVE GCD(_, _)
GCD(a, b) == IF b = 0 THEN a ELSE GCD(b, a % b)

\* the fraction n / d, d # 0, in lowest terms with a positive denominator
Frac(n, d) ==
    LET g == GCD(Abs(n), Abs(d))
        sgn == IF d < 0 THEN 0 - 1 ELSE 1
    IN  <<(sgn * n) \div g, (sgn * d) \div g>>

FZero == <<0, 1>>
FOne == <<1, 1>>
FAdd(x, y) == Frac(x[1] * y[2] + y[1] * x[2], x[2] * y[2])
FSub(x, y) == Frac(x[1] * y[2] - y[1] * x[2], x[2] * y[2])
FMul(x, y) == Frac(x[1] * y[1], x[2] * y[2])
FNeg(x) == <<0 - x[1], x[2]>>

\* 1 / x, x # 0
FInvert(x) == Frac(x[2], x[1])

RECURSIVE FSumTo(_, _)
FSumTo(f, n) == IF n = 0 THEN FZero ELSE FAdd(FSumTo(f, n - 1), f[n])

\* data.convertTo(data, CV_64FC1)
ToDouble(M) == [i \in 1..Rows(M) |-> [j \in 1..Cols(M) |-> <<M[i][j], 1>>]]

\* Mat::zeros(n, d, CV_64FC1)
FZeros(n, d) == [i \in 1..n |-> [j \in 1..d |-> FZero]]

\* cv::add and cv::subtract on rows
RowAdd(a, b) == [j \in 1..Len(a) |-> FAdd(a[j], b[j])]
RowSub(a, b) == [j \in 1..Len(a) |-> FSub(a[j], b[j])]

\* m.convertTo(m, m.type(), 1.0 / n)
RowScale(a, n) == [j \in 1..Len(a) |-> FMul(a[j], Frac(1, n))]

\* cv::add on matrices
MatAdd(A, B) == [i \in 1..Rows(A) |-> RowAdd(A[i], B[i])]

\* cv::mulTransposed(src, dst, true): dst = src^T * src
mulTransposed(src) ==
    [a \in 1..Cols(src) |-> [b \in 1..Cols(src) |->
        FSumTo([i \in 1..Rows(src) |-> FMul(src[i][a], src[i][b])], Rows(src))]]

\* the matrix without row 1 and column j
Minor1(M, j) ==
    [r \in 1..(Len(M) - 1) |-> [c \in 1..(Len(M) - 1) |->
        M[r + 1][IF c < j THEN c ELSE c + 1]]]

\* the matrix without row i and column j
Minor(M, i, j) ==
    [r \in 1..(Len(M) - 1) |-> [c \in 1..(Len(M) - 1) |->
        M[IF r < i THEN r ELSE r + 1][IF c < j THEN c ELSE c + 1]]]

RECURSIVE Det(_)
Det(M) ==
    IF Len(M) = 0 THEN FOne
    ELSE FSumTo([j \in 1..Len(M) |->
                    FMul(IF j % 2 = 1 THEN M[1][j] ELSE FNeg(M[1][j]),
                         Det(Minor1(M, j)))], Len(M))

\* Mat::inv() (DECOMP_LU): the inverse, and the zero matrix for a singular
\* argument; no error is raised
inv(M) ==
    LET det == Det(M)
    IN  IF det = FZero
        THEN FZeros(Len(M), Len(M))
        ELSE [i \in 1..Len(M) |-> [j \in 1..Len(M) |->
                FMul(IF (i + j) % 2 = 0 THEN FOne ELSE FNeg(FOne),
                     FMul(Det(Minor(M, j, i)), FInvert(det)))]]

\* cv::gemm(A, B, 1.0, Mat(), 0.0, M) on square matrices of fractions
FMatMul(A, B) ==
    [i \in 1..Rows(A) |-> [j \in 1..Cols(B) |->
        FSumTo([l \in 1..Rows(B) |-> FMul(A[i][l], B[l][j])], Rows(B))]]

---------------------------------------------------------------------------
(* subspace::LDA *)

\* the fields of an LDA instance
Instance(asRow, numc, vecs, vals) ==
    [dataAsRow |-> asRow, num_components |-> numc,
     eigenvectors |-> vecs, eigenvalues |-> vals]

self == Instance(dataAsRow, num_components, eigenvectors, eigenvalues)

\* LDA(int num_components, bool dataAsRow): nothing is computed
Construct(numc, asRow) == Instance(asRow, numc, EmptyMat, EmptyMat)

\* compute: if(src.channels() != 1) CV_Error(CV_StsBadArg, ...)
ChannelsBad(ch) == ch # 1

\* a check that only rejects too few labels
LabelsFewer(labels, N) == Len(labels) < N

\* compute: if(labels.size() != N) CV_Error(CV_StsBadArg, ...)
LabelsMismatch(labels, N) == Len(labels) # N

SeqRange(q) == {q[i] : i \in 1..Len(q)}

MaxOf(S) == CHOOSE x \in S : \A y \in S : y <= x

\* compute: label2num[num2label[i]] = i for i = 0, 1, ...; a later
\* assignment to the same key replaces an earlier one
Label2Num(num2label) ==
    [l \in SeqRange(num2label) |->
        MaxOf({i \in 0..(Len(num2label) - 1) : num2label[i + 1] = l})]

\* compute: the labels mapped to class indices, and the unique labels
MapLabels(labels) ==
    LET num2label == remove_dups(labels)
        label2num == Label2Num(num2label)
    IN  [num2label |-> num2label,
         mapped_labels |-> [i \in 1..Len(labels) |-> label2num[labels[i]]]]

\* counts that run on from one class to the next
NumClassCumulative(mapped_labels, C) ==
    [c \in 1..C |-> Cardinality({i \in 1..Len(mapped_labels) :
                                    mapped_labels[i] <= c - 1})]

\* compute: numClass[c] after the loop over the samples (index c + 1 here)
NumClass(mapped_labels, C) ==
    [c \in 1..C |-> Cardinality({i \in 1..Len(mapped_labels) :
                                    mapped_labels[i] = c - 1})]

\* compute: meanTotal / meanClass[c] after the loop that calculates sums,
\* over the rows the loop adds
SumRows(data, keep) ==
    [j \in 1..Cols(data) |->
        FSumTo([i \in 1..Rows(data) |-> IF keep[i] THEN data[i][j] ELSE FZero],
               Rows(data))]

\* mulTransposed(tmp, tmp, true) of a single row
OuterSquare(row) == mulTransposed(<<row>>)

\* between-classes scatter about the mean of the class means
BetweenScatterAboutClassMeans(meanClass, meanTotal, C) ==
    LET D == Len(meanTotal)
        centre == RowScale(SumRows(meanClass, [c \in 1..C |-> TRUE]), C)
        Acc[c \in 0..C] ==
            IF c = 0 THEN FZeros(D, D)
            ELSE MatAdd(Acc[c - 1], OuterSquare(RowSub(meanClass[c], centre)))
    IN  Acc[C]

\* compute: calculate between-classes scatter
BetweenScatter(meanClass, meanTotal, C) ==
    LET D == Len(meanTotal)
        Acc[c \in 0..C] ==
            IF c = 0 THEN FZeros(D, D)
            ELSE MatAdd(Acc[c - 1], OuterSquare(RowSub(meanClass[c], meanTotal)))
    IN  Acc[C]

\* compute: from "holds the mean over all classes" to M = inv(Sw)*Sb, on
\* the converted data and the mapped labels
Statistics(src, mapped_labels, C) ==
    LET data == ToDouble(src)
        N == Rows(src)
        numClass == NumClass(mapped_labels, C)
        sumTotal == SumRows(data, [i \in 1..N |-> TRUE])
        sumClass == [c \in 1..C |->
                        SumRows(data, [i \in 1..N |-> mapped_labels[i] = c - 1])]
        meanTotal == RowScale(sumTotal, N)
        meanClass == [c \in 1..C |-> RowScale(sumClass[c], numClass[c])]
        centred == [i \in 1..N |->
                        RowSub(data[i], meanClass[mapped_labels[i] + 1])]
        Sw == mulTransposed(centred)
        Sb == BetweenScatter(meanClass, meanTotal, C)
        Swi == inv(Sw)
    IN  [numClass |-> numClass, meanTotal |-> meanTotal,
         meanClass |-> meanClass, Sw |-> Sw, Sb |-> Sb, Swi |-> Swi,
         M |-> FMatMul(Swi, Sb)]

\* compute: clip number of components to be a valid number
ClipComponents(numc, C) ==
    IF (numc <= 0) \/ (numc > (C - 1)) THEN C - 1 ELSE numc

\* ranking with argsort's default direction (ascending)
RankAscendingAndTruncate(numc, es, tie) ==
    LET vals == Reshape11(<<es.eigenvalues>>)
        sorted_indices == argsort(vals, TRUE, tie).mat[1]
        sortedVals == sortMatrixByColumn(vals, sorted_indices, 0)
        sortedVecs == sortMatrixByColumn(es.eigenvectors, sorted_indices, 0)
    IN  IF numc > Cols(sortedVals)
        THEN [status |-> "Error",
              eigenvalues |-> sortedVals, eigenvectors |-> sortedVecs]
        ELSE [status |-> "ok",
              eigenvalues |-> ColRange(sortedVals, numc),
              eigenvectors |-> ColRange(sortedVecs, numc)]

\* a ranking that reorders the eigenvalues and leaves the eigenvectors
\* in the order of the eigen solver
RankValuesOnlyAndTruncate(numc, es, tie) ==
    LET vals == Reshape11(<<es.eigenvalues>>)
        sorted_indices == argsort(vals, FALSE, tie).mat[1]
        sortedVals == sortMatrixByColumn(vals, sorted_indices, 0)
        sortedVecs == es.eigenvectors
    IN  IF numc > Cols(sortedVals)
        THEN [status |-> "Error",
              eigenvalues |-> sortedVals, eigenvectors |-> sortedVecs]
        ELSE [status |-> "ok",
              eigenvalues |-> ColRange(sortedVals, numc),
              eigenvectors |-> ColRange(sortedVecs, numc)]

\* compute, from the eigen decomposition on: the eigenvalues as one row, both
\* matrices reordered by descending eigenvalue and assigned to the members,
\* then the first numc columns taken.  Range(0, numc) beyond the number of
\* columns raises a cv::Exception, and the members keep what was assigned.
RankAndTruncate(numc, es, tie) ==
    LET vals == Reshape11(<<es.eigenvalues>>)
        sorted_indices == argsort(vals, FALSE, tie).mat[1]
        sortedVals == sortMatrixByColumn(vals, sorted_indices, 0)
        sortedVecs == sortMatrixByColumn(es.eigenvectors, sorted_indices, 0)
    IN  IF numc > Cols(sortedVals)
        THEN [status |-> "Error",
              eigenvalues |-> sortedVals, eigenvectors |-> sortedVecs]
        ELSE [status |-> "ok",
              eigenvalues |-> ColRange(sortedVals, numc),
              eigenvectors |-> ColRange(sortedVecs, numc)]

\* compute, after the input checks
Learn(numc, C, es, tie) ==
    LET k == ClipComponents(numc, C)
        r == RankAndTruncate(k, es, tie)
    IN  [status |-> r.status, num_components |-> k,
         eigenvalues |-> r.eigenvalues, eigenvectors |-> r.eigenvectors]

\* project that hands the eigenvalues over as the mean
LDAprojectWithMean(this, src) ==
    project(this.eigenvectors, this.eigenvalues,
            IF this.dataAsRow THEN src ELSE transpose(src))

\* LDA::project(src)
LDAproject(this, src) ==
    project(this.eigenvectors, EmptyMat,
            IF this.dataAsRow THEN src ELSE transpose(src))

\* LDA::reconstruct(src)
LDAreconstruct(this, src) ==
    reconstruct(this.eigenvectors, EmptyMat,
                IF this.dataAsRow THEN src ELSE transpose(src))

---------------------------------------------------------------------------
(* Inputs *)

Pattern(n, d, s) == [i \in 1..n |-> [j \in 1..d |-> (2 * i + j + s) % 3]]

Zeros(n, d) == [i \in 1..n |-> [j \in 1..d |-> 0]]

\* sample matrices as supplied: one sample per row, or one per column
SampleMats(asRow) ==
    {IF asRow THEN Pattern(n, d, 0) ELSE transpose(Pattern(n, d, 0)) :
        n \in 1..MaxN, d \in 1..MaxD}

Channels == {1, 3}

\* label lists: n labels that run through the first c of the values 5, 2, 9
LabelValues == <<5, 2, 9>>

LabelSeqs ==
    {[i \in 1..n |-> LabelValues[((i - 1) % c) + 1]] :
        n \in 1..MaxN, c \in 1..Len(LabelValues)}

\* what EigenvalueDecomposition(M) may hand back for a D x D matrix: D real
\* eigenvalues in any order, and a D x D matrix whose columns are distinct
EigenSolver(D) ==
    {[eigenvalues |-> ev,
      eigenvectors |-> [i \in 1..D |-> [j \in 1..D |->
                            IF i = j THEN 2 ELSE j - i]]] :
        ev \in [1..D -> 0..MaxEig]}

NoSolve == [eigenvalues |-> <<>>, eigenvectors |-> EmptyMat]

\* matrices handed to LDA::project and LDA::reconstruct
TransformMats ==
    {Zeros(n, d) : n \in 1..MaxT, d \in 1..MaxT}
    \cup {Pattern(n, d, 0) : n \in 1..MaxT, d \in 1..MaxT}

---------------------------------------------------------------------------
(* The life of one LDA instance *)

\* last: the operation, how it ended, and what it was given.  For compute,
\* ch is the number of channels of the sample matrix, samples the number of
\* samples it holds (its rows, or its columns when a column is a sample),
\* nlabels the number of labels, C the number of classes and es what the
\* eigen solver returned, Sw the within-classes scatter matrix the call
\* inverted (C, es and Sw only when the input checks passed); for the other
\* operations arg is the argument (list) and ret what was returned.
NoCall == [op |-> "none", status |-> "none", ch |-> 0, samples |-> 0,
           nlabels |-> 0, C |-> 0, es |-> NoSolve, Sw |-> EmptyMat,
           arg |-> <<>>, ret |-> Failed]

Init ==
    /\ requested \in (0 - 1)..MaxReq
    /\ dataAsRow \in BOOLEAN
    /\ num_components = Construct(requested, dataAsRow).num_components
    /\ eigenvectors = Construct(requested, dataAsRow).eigenvectors
    /\ eigenvalues = Construct(requested, dataAsRow).eigenvalues
    /\ computed = FALSE
    /\ last = NoCall

\* void compute(const Mat& src, const vector<int>& labels)
\* The class means, the scatter matrices Sw and Sb and M = inv(Sw) * Sb are
\* locals of the call; none of the steps that produce them raises an error,
\* and they reach the instance only through what the eigen solver returns
\* for M, which is any member of EigenSolver(D) here.
Compute ==
    \E ch \in Channels, src \in SampleMats(dataAsRow), labels \in LabelSeqs :
        LET data == IF dataAsRow THEN src ELSE transpose(src)
            map  == MapLabels(labels)
            N    == Rows(data)
            D    == Cols(data)
            C    == Len(map.num2label)
            call == [NoCall EXCEPT
                       !.op = "compute", !.ch = ch, !.nlabels = Len(labels),
                       !.samples = IF dataAsRow THEN Rows(src) ELSE Cols(src)]
        IN  IF ChannelsBad(ch) \/ LabelsMismatch(labels, N)
            THEN /\ last' = [call EXCEPT !.status = "InvalidArgument"]
                 /\ UNCHANGED lda
            ELSE \E stats \in {Statistics(data, map.mapped_labels, C)} :
                    \E es \in EigenSolver(D), tie \in BOOLEAN :
                        LET r == Learn(num_components, C, es, tie)
                        IN  /\ num_components' = r.num_components
                            /\ eigenvalues' = r.eigenvalues
                            /\ eigenvectors' = r.eigenvectors
                            /\ computed' = (computed \/ r.status = "ok")
                            /\ last' = [call EXCEPT
                                          !.status = r.status, !.C = C,
                                          !.es = es, !.Sw = stats.Sw]
                            /\ UNCHANGED <<dataAsRow, requested>>

\* Mat project(const Mat& src)
Project ==
    \E src \in TransformMats :
        /\ last' = [NoCall EXCEPT !.op = "project", !.status = "returned",
                                  !.arg = src,
                                  !.ret = LDAproject(self, src)]
        /\ UNCHANGED lda

\* Mat reconstruct(const Mat& src)
Reconstruct ==
    \E src \in TransformMats :
        /\ last' = [NoCall EXCEPT !.op = "reconstruct", !.status = "returned",
                                  !.arg = src,
                                  !.ret = LDAreconstruct(self, src)]
        /\ UNCHANGED lda

Next == Compute \/ Project \/ Reconstruct

Spec == Init /\ [][Next]_vars

---------------------------------------------------------------------------
(* The helper functions and the generic transforms on their own: a call is
   drawn with its arguments, and the function is applied to them *)

SortValues == {0 - 1, 0, 1, 3}

SortSeqs == UNION {[1..n -> SortValues] : n \in 1..MaxSortLen}

\* 1D matrices (one row or one column), and two that are not 1D
ArgsortMats ==
    {<<v>> : v \in SortSeqs} \cup {transpose(<<v>>) : v \in SortSeqs}
    \cup {EmptyMat, Pattern(2, 2, 0)}

DupValues == {1, 2, 3}

DupSeqs == UNION {[1..n -> DupValues] : n \in 0..MaxLabels}

\* bases D x k, means (none, a row, a column), inputs n x d
BasisMats == {Pattern(D, k, 1) : D \in 1..MaxT, k \in 1..MaxT}

MeanMats ==
    {EmptyMat} \cup {Pattern(1, m, 1) : m \in 1..MaxT}
    \cup {transpose(Pattern(1, m, 1)) : m \in 1..MaxT}

\* sample matrices of zeros and ones, one sample per row
StatMats == UNION {[1..n -> [1..d -> {0, 1}]] : n \in 1..MaxN, d \in 1..MaxD}

\* matrices to reorder, and the index lists of at most n indices below n
SortMats == {Pattern(n, d, 0) : n \in 1..MaxT, d \in 1..MaxT}

IndexLists(n) == UNION {[1..m -> 0..(n - 1)] : m \in 0..n}

\* what an element of a created matrix holds before it is written
JunkValues == {0, 7}

Pending(op, arg) == [NoCall EXCEPT !.op = op, !.status = "pending", !.arg = arg]

HelperCalls ==
    {Pending("argsort", <<src, asc, tie>>) :
        src \in ArgsortMats, asc \in BOOLEAN, tie \in BOOLEAN}
    \cup {Pending("remove_dups", <<src>>) : src \in DupSeqs}
    \cup {Pending("map_labels", <<labels>>) : labels \in DupSeqs}
    \cup {Pending(op, <<W, mean, src>>) :
            op \in {"subspace::project", "subspace::reconstruct"},
            W \in BasisMats, mean \in MeanMats, src \in TransformMats}
    \cup UNION {{Pending("sortMatrixByColumn", <<src, indices>>) :
                    indices \in IndexLists(Cols(src))} : src \in SortMats}
    \cup UNION {{Pending("sortMatrixByRow", <<src, indices>>) :
                    indices \in IndexLists(Rows(src))} : src \in SortMats}
    \cup UNION {{Pending("statistics", <<data, labels>>) :
                    labels \in {l \in LabelSeqs : Len(l) = Rows(data)}} :
                 data \in StatMats}

HelperInit ==
    /\ requested = 0
    /\ dataAsRow = TRUE
    /\ num_components = Construct(requested, dataAsRow).num_components
    /\ eigenvectors = Construct(requested, dataAsRow).eigenvectors
    /\ eigenvalues = Construct(requested, dataAsRow).eigenvalues
    /\ computed = FALSE
    /\ last \in HelperCalls

\* Mat sorted_indices = cv::argsort(src, ascending)
ArgsortCall ==
    /\ last.op = "argsort"
    /\ last.status = "pending"
    /\ last' = [last EXCEPT
                  !.status = "returned",
                  !.ret = argsort(last.arg[1], last.arg[2], last.arg[3])]
    /\ UNCHANGED lda

\* vector<int> elems = remove_dups(src)
RemoveDupsCall ==
    /\ last.op = "remove_dups"
    /\ last.status = "pending"
    /\ last' = [last EXCEPT !.status = "returned",
                            !.ret = remove_dups(last.arg[1])]
    /\ UNCHANGED lda

\* the label mapping at the head of compute
MapLabelsCall ==
    /\ last.op = "map_labels"
    /\ last.status = "pending"
    /\ last' = [last EXCEPT !.status = "returned",
                            !.ret = MapLabels(last.arg[1])]
    /\ UNCHANGED lda

\* Mat Y = subspace::project(W, mean, src)
SubspaceProjectCall ==
    /\ last.op = "subspace::project"
    /\ last.status = "pending"
    /\ last' = [last EXCEPT
                  !.status = "returned",
                  !.ret = project(last.arg[1], last.arg[2], last.arg[3])]
    /\ UNCHANGED lda

\* Mat X = subspace::reconstruct(W, mean, src)
SubspaceReconstructCall ==
    /\ last.op = "subspace::reconstruct"
    /\ last.status = "pending"
    /\ last' = [last EXCEPT
                  !.status = "returned",
                  !.ret = reconstruct(last.arg[1], last.arg[2], last.arg[3])]
    /\ UNCHANGED lda

\* the class counts, means and scatter matrices compute derives from the
\* samples and their labels, once the input checks have passed
StatisticsCall ==
    /\ last.op = "statistics"
    /\ last.status = "pending"
    /\ ~LabelsMismatch(last.arg[2], Rows(last.arg[1]))
    /\ LET map == MapLabels(last.arg[2])
       IN  last' = [last EXCEPT
                      !.status = "returned",
                      !.ret = Statistics(last.arg[1], map.mapped_labels,
                                         Len(map.num2label))]
    /\ UNCHANGED lda

\* Mat dst = sortMatrixByColumn(src, indices)
SortMatrixByColumnCall ==
    /\ last.op = "sortMatrixByColumn"
    /\ last.status = "pending"
    /\ \E junk \in JunkValues :
          last' = [last EXCEPT
                     !.status = "returned",
                     !.ret = sortMatrixByColumn(last.arg[1], last.arg[2], junk)]
    /\ UNCHANGED lda

\* Mat dst = sortMatrixByRow(src, indices)
SortMatrixByRowCall ==
    /\ last.op = "sortMatrixByRow"
    /\ last.status = "pending"
    /\ \E junk \in JunkValues :
          last' = [last EXCEPT
                     !.status = "returned",
                     !.ret = sortMatrixByRow(last.arg[1], last.arg[2], junk)]
    /\ UNCHANGED lda

HelperNext ==
    \/ ArgsortCall
    \/ RemoveDupsCall
    \/ MapLabelsCall
    \/ SubspaceProjectCall
    \/ SubspaceReconstructCall
    \/ StatisticsCall
    \/ SortMatrixByColumnCall
    \/ SortMatrixByRowCall

HelperSpec == HelperInit /\ [][HelperNext]_vars

---------------------------------------------------------------------------
(* Properties *)

\* the plain matrix product A * B, and A * B^T
MatMul(A, B) ==
    [i \in 1..Rows(A) |-> [j \in 1..Cols(B) |->
        SumTo([l \in 1..Rows(B) |-> A[i][l] * B[l][j]], Rows(B))]]

MatMulT(A, B) ==
    [i \in 1..Rows(A) |-> [j \in 1..Rows(B) |->
        SumTo([l \in 1..Cols(B) |-> A[i][l] * B[j][l]], Cols(B))]]

\* the component count the specification promises for a request r and C classes
Promised(r, C) == IF r <= 0 \/ r > C - 1 THEN C - 1 ELSE r

ValidCompute ==
    /\ last.op = "compute"
    /\ last.ch = 1
    /\ last.nlabels = last.samples

\* C1: every compute on single-channel samples with as many labels as
\* samples and C >= 2 classes completes without error, and eigenvectors()
\* then has min(r, C - 1) columns, C - 1 of them when r <= 0 or r > C - 1,
\* for the r the instance was constructed with.
ComputeSucceedsWithPromisedCount ==
    (ValidCompute /\ last.C >= 2)
        => /\ last.status = "ok"
           /\ Cols(eigenvectors) = Promised(requested, last.C)

\* C2: compute is not cumulative: what a successful compute leaves in the
\* instance (eigenvectors, eigenvalues, component count) is what a freshly
\* constructed instance with the same request learns from the same input,
\* whenever that instance's compute succeeds too.
ComputeAsOnFreshInstance ==
    (last.op = "compute" /\ last.status = "ok")
        => \E tie \in BOOLEAN :
              LET fresh == Learn(Construct(requested, dataAsRow).num_components,
                                 last.C, last.es, tie)
              IN  fresh.status = "ok"
                     => /\ eigenvectors = fresh.eigenvectors
                        /\ eigenvalues = fresh.eigenvalues
                        /\ num_components = fresh.num_components

\* C3: compute ends with InvalidArgument whenever the sample matrix is
\* multi-channel and whenever the number of labels differs from the number
\* of samples (rows, or columns of the supplied matrix when a column is a
\* sample), whatever the requested count and the labels are.
InvalidInputRejected ==
    (last.op = "compute" /\ (last.ch # 1 \/ last.nlabels # last.samples))
        => last.status = "InvalidArgument"

InvalidInputRejectedWitness ==
    /\ last.op = "compute"
    /\ ~dataAsRow
    /\ last.ch = 1
    /\ last.nlabels > last.samples
    /\ last.status = "InvalidArgument"
    /\ computed

\* C4: after a successful compute the entries of eigenvalues() are in
\* non-increasing order, whatever order the eigen solver returned them in.
EigenvaluesNonIncreasing ==
    (last.op = "compute" /\ last.status = "ok")
        => /\ Rows(eigenvalues) = 1
           /\ \A i \in 1..(Cols(eigenvalues) - 1) :
                 eigenvalues[1][i] >= eigenvalues[1][i + 1]

EigenvaluesNonIncreasingWitness ==
    /\ last.op = "compute"
    /\ last.status = "ok"
    /\ Len(last.es.eigenvalues) = 2
    /\ last.es.eigenvalues[1] < last.es.eigenvalues[2]
    /\ Cols(eigenvalues) = 2

\* C5: subspace::reconstruct(basis D x k, mean, coefficients n x k) returns
\* coefficients * basis^T, with mean added to every row if and only if mean
\* has D elements (D the number of rows of basis), an n x D matrix.
ReconstructAddsMeanOfOutputSize ==
    (/\ last.op = "subspace::reconstruct"
     /\ last.status = "returned"
     /\ Cols(last.arg[3]) = Cols(last.arg[1]))
        => LET W == last.arg[1]
               mean == last.arg[2]
               Y == last.arg[3]
               offset(j) == IF Total(mean) = Rows(W)
                            THEN Flatten(mean)[j] ELSE 0
           IN  /\ last.ret.ok
               /\ last.ret.mat = [i \in 1..Rows(Y) |-> [j \in 1..Rows(W) |->
                                    MatMulT(Y, W)[i][j] + offset(j)]]

\* C6: subspace::project(basis D x k, mean, samples n x D) returns
\* (samples - mean in every row) * basis when mean is non-empty and has D
\* elements, and samples * basis otherwise, an n x k matrix.
ProjectCentresOnMatchingMean ==
    (/\ last.op = "subspace::project"
     /\ last.status = "returned"
     /\ Cols(last.arg[3]) = Rows(last.arg[1]))
        => LET W == last.arg[1]
               mean == last.arg[2]
               X == last.arg[3]
               centre(l) == IF mean # EmptyMat /\ Total(mean) = Rows(W)
                            THEN Flatten(mean)[l] ELSE 0
           IN  /\ last.ret.ok
               /\ Rows(last.ret.mat) = Rows(X)
               /\ Cols(last.ret.mat) = Cols(W)
               /\ last.ret.mat = MatMul([i \in 1..Rows(X) |->
                                           [l \in 1..Cols(X) |->
                                              X[i][l] - centre(l)]], W)

ProjectCentresOnMatchingMeanWitness ==
    /\ last.op = "subspace::project"
    /\ last.status = "returned"
    /\ Total(last.arg[2]) = Rows(last.arg[1])
    /\ Cols(last.arg[3]) = Rows(last.arg[1])
    /\ Cols(last.arg[1]) # Rows(last.arg[1])
    /\ last.ret.ok
    /\ last.ret.mat # MatMul(last.arg[3], last.arg[1])

\* C7: argsort of a one-dimensional sequence s of length n returns a
\* permutation p of 0..n-1 along which s is non-decreasing (ascending) or
\* non-increasing (descending); [1, 0, 3, -1] gives [3, 1, 0, 2] ascending
\* and [2, 0, 1, 3] descending.
ArgsortIsSortingPermutation ==
    (/\ last.op = "argsort"
     /\ last.status = "returned"
     /\ (Rows(last.arg[1]) = 1 \/ Cols(last.arg[1]) = 1))
        => LET s == Flatten(last.arg[1])
               n == Len(s)
               ascending == last.arg[2]
               p == last.ret.mat[1]
           IN  /\ last.ret.ok
               /\ Rows(last.ret.mat) = 1
               /\ Len(p) = n
               /\ \A k \in 0..(n - 1) :
                     Cardinality({i \in 1..n : p[i] = k}) = 1
               /\ \A i \in 1..(n - 1) :
                     IF ascending THEN s[p[i] + 1] <= s[p[i + 1] + 1]
                                  ELSE s[p[i] + 1] >= s[p[i + 1] + 1]
               /\ (s = <<1, 0, 3, 0 - 1>> /\ ascending) => p = <<3, 1, 0, 2>>
               /\ (s = <<1, 0, 3, 0 - 1>> /\ ~ascending) => p = <<2, 0, 1, 3>>

ArgsortIsSortingPermutationWitness ==
    /\ last.op = "argsort"
    /\ last.status = "returned"
    /\ last.arg[1] = <<(<<1, 0, 3, 0 - 1>>)>>
    /\ last.arg[2] = FALSE
    /\ last.ret = Ok(<<(<<2, 0, 1, 3>>)>>)

\* C8: remove_dups returns every distinct value of its argument exactly once,
\* in strictly ascending order ([2,1,2,3,1] gives [1,2,3]); and compute maps
\* the labels to class indices by an order-preserving bijection from the
\* distinct labels onto 0..C-1, C the number of distinct labels, so that two
\* samples get the same index exactly when their labels are equal.
LabelsMappedToRanks ==
    /\ (last.op = "remove_dups" /\ last.status = "returned")
          => LET src == last.arg[1]
                 elems == last.ret
             IN  /\ SeqRange(elems) = SeqRange(src)
                 /\ \A i \in 1..(Len(elems) - 1) : elems[i] < elems[i + 1]
                 /\ src = <<2, 1, 2, 3, 1>> => elems = <<1, 2, 3>>
    /\ (last.op = "map_labels" /\ last.status = "returned")
          => LET labels == last.arg[1]
                 mapped == last.ret.mapped_labels
                 C == Cardinality(SeqRange(labels))
             IN  /\ Len(last.ret.num2label) = C
                 /\ Len(mapped) = Len(labels)
                 /\ SeqRange(mapped) = 0..(C - 1)
                 /\ \A i, j \in 1..Len(labels) :
                       /\ (labels[i] < labels[j]) <=> (mapped[i] < mapped[j])
                       /\ (labels[i] = labels[j]) <=> (mapped[i] = mapped[j])

LabelsMappedToRanksWitness ==
    /\ last.op = "map_labels"
    /\ last.status = "returned"
    /\ last.arg[1] = <<2, 1, 2, 3, 1>>
    /\ last.ret.num2label = <<1, 2, 3>>
    /\ last.ret.mapped_labels = <<1, 0, 1, 2, 0>>

\* C9: on an instance made by the non-computing constructor, eigenvectors()
\* and eigenvalues() are empty in every state before the first compute that
\* completes successfully, also after compute calls that ended in an error.
EmptyBeforeFirstSuccessfulCompute ==
    ~computed => (eigenvectors = EmptyMat /\ eigenvalues = EmptyMat)

\* C10: LDA::project returns X' * W and LDA::reconstruct returns Y' * W^T,
\* W the learned eigenvectors and X' / Y' the argument, transposed when a
\* column is a sample; no mean is subtracted or added, so an all-zero sample
\* is projected to an all-zero row.
EngineTransformsUncentred ==
    LET W == eigenvectors
        A == IF dataAsRow THEN last.arg ELSE transpose(last.arg)
    IN  /\ (last.op = "project" /\ Cols(A) = Rows(W) /\ Rows(W) > 0)
              => /\ last.ret.ok
                 /\ last.ret.mat = MatMul(A, W)
                 /\ \A i \in 1..Rows(A) :
                       (\A l \in 1..Cols(A) : A[i][l] = 0)
                          => \A j \in 1..Cols(W) : last.ret.mat[i][j] = 0
        /\ (last.op = "reconstruct" /\ Cols(A) = Cols(W) /\ Rows(W) > 0)
              => /\ last.ret.ok
                 /\ last.ret.mat = MatMulT(A, W)

EngineTransformsUncentredWitness ==
    /\ last.op = "project"
    /\ ~dataAsRow
    /\ computed
    /\ Rows(last.arg) = 2
    /\ Cols(last.arg) = 1
    /\ Cols(eigenvectors) = 2
    /\ last.ret.ok
    /\ \E j \in 1..2 : last.ret.mat[1][j] # 0

\* C13: after the accumulation loop the class counts add up to the number
\* of samples N, there is one count per class, and every count is at least 1.
ClassCountsCoverSamples ==
    (last.op = "statistics" /\ last.status = "returned") =>
        LET numClass == last.ret.numClass
        IN  /\ Len(numClass) = Cardinality(SeqRange(last.arg[2]))
            /\ SumTo(numClass, Len(numClass)) = Rows(last.arg[1])
            /\ \A c \in 1..Len(numClass) : numClass[c] >= 1

ClassCountsCoverSamplesWitness ==
    /\ last.op = "statistics"
    /\ last.status = "returned"
    /\ Rows(last.arg[1]) = 3
    /\ last.ret.numClass = <<1, 2>>

RECURSIVE FSumOver(_, _)
FSumOver(S, f) ==
    IF S = {} THEN FZero
    ELSE LET x == CHOOSE y \in S : TRUE
         IN  FAdd(f[x], FSumOver(S \ {x}, f))

\* C12: Sb is D x D and symmetric, and equals the sum over the classes of
\* (mean_c - mean_total)^T (mean_c - mean_total), one term per class with no
\* weight by class size, where mean_c is the mean of the samples of class c
\* and mean_total the mean of all N samples.
BetweenScatterIsUnweightedSum ==
    (last.op = "statistics" /\ last.status = "returned") =>
        LET X == last.arg[1]
            labels == last.arg[2]
            N == Rows(X)
            D == Cols(X)
            L == SeqRange(labels)
            Sb == last.ret.Sb
            n(v) == Cardinality({i \in 1..N : labels[i] = v})
            sum(v, a) ==
                SumTo([i \in 1..N |-> IF labels[i] = v THEN X[i][a] ELSE 0], N)
            total(a) == SumTo([i \in 1..N |-> X[i][a]], N)
            dev(v, a) == FSub(Frac(sum(v, a), n(v)), Frac(total(a), N))
        IN  /\ Rows(Sb) = D
            /\ \A a \in 1..D : Len(Sb[a]) = D
            /\ \A a, b \in 1..D :
                 /\ Sb[a][b] =
                        FSumOver(L, [v \in L |-> FMul(dev(v, a), dev(v, b))])
                 /\ Sb[a][b] = Sb[b][a]

BetweenScatterIsUnweightedSumWitness ==
    /\ last.op = "statistics"
    /\ last.status = "returned"
    /\ Cols(last.arg[1]) = 2
    /\ last.ret.numClass = <<1, 2>>
    /\ last.ret.Sb[1][2] # FZero
    /\ last.ret.Sb[1][1] # last.ret.Sb[2][2]

\* C11: when the within-classes scatter matrix Sw is singular, compute ends
\* with a SingularMatrix error; it neither goes on with a substitute inverse
\* nor returns normally.
SingularScatterEndsInError ==
    (ValidCompute /\ Det(last.Sw) = FZero) => last.status = "SingularMatrix"

\* C14: ranking and truncation keep the eigenpairs intact: after a successful
\* compute the i-th stored eigenvalue and the i-th stored eigenvector column
\* are one and the same pair of the eigen solver's output, no pair is stored
\* twice, and no dropped pair has a larger eigenvalue than a stored one.
EigenpairsKeptIntact ==
    (last.op = "compute" /\ last.status = "ok") =>
        LET vals == last.es.eigenvalues
            vecs == last.es.eigenvectors
            D == Len(vals)
            k == Cols(eigenvalues)
        IN  /\ Rows(eigenvectors) = D
            /\ Cols(eigenvectors) = k
            /\ \E p \in [1..k -> 1..D] :
                 /\ \A i, j \in 1..k : p[i] = p[j] => i = j
                 /\ \A i \in 1..k :
                      /\ eigenvalues[1][i] = vals[p[i]]
                      /\ \A r \in 1..D : eigenvectors[r][i] = vecs[r][p[i]]
                 /\ \A d \in 1..D : \A i \in 1..k :
                      (\A j \in 1..k : p[j] # d) => vals[d] <= vals[p[i]]

EigenpairsKeptIntactWitness ==
    /\ last.op = "compute"
    /\ last.status = "ok"
    /\ Len(last.es.eigenvalues) = 2
    /\ last.es.eigenvalues[1] < last.es.eigenvalues[2]
    /\ Cols(eigenvectors) = 1
    /\ \A r \in 1..2 : eigenvectors[r][1] = last.es.eigenvectors[r][2]

\* C16: a compute that ends in an error leaves eigenvectors(), eigenvalues()
\* and the stored number of components as they were before the call.
FailedComputeLeavesModel ==
    [][(last'.op = "compute" /\ last'.status # "ok")
          => /\ eigenvectors' = eigenvectors
             /\ eigenvalues' = eigenvalues
             /\ num_components' = num_components]_vars

\* C15: for an index list of m in-range indices, m at most the number of
\* columns of src, sortMatrixByColumn returns a matrix of exactly m columns
\* whose i-th column is column indices[i] of src; sortMatrixByRow likewise
\* returns exactly m rows, the i-th being row indices[i] of src.
SortMatrixKeepsIndexedOnly ==
    /\ (last.op = "sortMatrixByColumn" /\ last.status = "returned") =>
          LET src == last.arg[1]
              indices == last.arg[2]
          IN  last.ret = [r \in 1..Rows(src) |-> [i \in 1..Len(indices) |->
                              src[r][indices[i] + 1]]]
    /\ (last.op = "sortMatrixByRow" /\ last.status = "returned") =>
          LET src == last.arg[1]
              indices == last.arg[2]
          IN  last.ret = [i \in 1..Len(indices) |-> src[indices[i] + 1]]

=============================================================================
